---- MODULE Spec2Model ----
(***************************************************************************)
(* Recursive channel model for visible light communication                 *)
(* (src/main_model.py): tessellation of the six walls of a rectangular     *)
(* room, the pairwise geometry cache, the recursive impulse response, the  *)
(* power-delay histograms and the raw-data files.                          *)
(*                                                                         *)
(* Number representation.  The source computes in floating point; the     *)
(* model computes in exact rationals and fixed point:                      *)
(*   - a room dimension and the scale factor are fractions <<num, den>>;   *)
(*   - delta_L is the fraction <<g*p, L*q>> (g = num_gfc, L = den_lcm,     *)
(*     p/q = scale_factor); every coordinate is an integer number of       *)
(*     units of 1/(2*L*q) metre, so that delta_L/2 is g*p units;           *)
(*   - a distance is in millimetres (rounded down), a cosine in            *)
(*     thousandths, a delay in picoseconds;                                *)
(*   - a power is in fixed point with the positive radiometric scalars     *)
(*     ((m+1)/(2 pi), rho, delta_A, area_factor, a_r, 1/pi) taken as the   *)
(*     unit of the factor they multiply, and m = 1 as in __main__;         *)
(*   - NaN is an absorbing value of the arithmetic, as in numpy.           *)
(***************************************************************************)
EXTENDS Integers, Sequences, FiniteSets, TLC

VARIABLES pc, err, room, delta_L, ticks, init_index, no_points, array_points,
          ew_par, call, h_k, progress, hist_power_time, total_ht, files

vars == <<pc, err, room, delta_L, ticks, init_index, no_points, array_points,
          ew_par, call, h_k, progress, hist_power_time, total_ht, files>>

(***************************************************************************)
(* Program constants                                                       *)
(***************************************************************************)
\* speed of light, in millimetres per nanosecond (3e8 m/s)
SPEED_OF_LIGHT == 300
\* time resolution of the histogram, in picoseconds (0.2e-9 s)
TIME_RESOLUTION == 200
\* bins of the power histogram
BINS_HIST == 300
\* normal vector of each wall, indexed by wall label 0..5
NORMAL_VECTOR_WALL ==
    [w \in 0..5 |->
        CASE w = 0 -> <<0, 0, -1>>
          [] w = 1 -> <<0, 1, 0>>
          [] w = 2 -> <<1, 0, 0>>
          [] w = 3 -> <<0, -1, 0>>
          [] w = 4 -> <<-1, 0, 0>>
          [] OTHER -> <<0, 0, 1>>]

(***************************************************************************)
(* Bounds of the model                                                     *)
(***************************************************************************)
\* largest reflection order a caller asks for
MaxK == 3
\* largest number of records of one order a caller lets compute_cir build
MaxRecords == 600
\* largest number of cells a caller hands to make_parameters
MaxCells == 60
\* scale factors are p/q with p in 0..MaxScaleNum, q in 1..MaxScaleDen
MaxScaleNum == 2
MaxScaleDen == 3
\* largest numerator and denominator of a fractional room dimension
MaxDimNum == 3
MaxDimDen == 3

(***************************************************************************)
(* Arithmetic                                                              *)
(***************************************************************************)
Abs(a) == IF a < 0 THEN -a ELSE a

RECURSIVE Gcd(_, _)
\* math.gcd: non-negative, gcd(0, 0) = 0
Gcd(a, b) == IF b = 0 THEN Abs(a) ELSE Gcd(b, a % Abs(b))

\* int(a / b) for b > 0: truncation towards zero
Trunc(a, b) == IF a >= 0 THEN a \div b ELSE -((-a) \div b)

RECURSIVE Pow(_, _)
Pow(n, e) == IF e = 0 THEN 1 ELSE n * Pow(n, e - 1)

RECURSIVE ISqrtIn(_, _, _)
\* the largest r in lo..hi with r*r <= n
ISqrtIn(n, lo, hi) ==
    IF lo >= hi THEN lo
    ELSE LET mid == (lo + hi + 1) \div 2
         IN IF mid * mid <= n THEN ISqrtIn(n, mid, hi) ELSE ISqrtIn(n, lo, mid - 1)

ISqrt(n) == ISqrtIn(n, 0, 46340)

\* the not-a-number of numpy: 0/0 of line 62
NaN == 0 - 1000000000

FMul(a, b) == IF a = NaN \/ b = NaN THEN NaN ELSE a * b

FAdd(a, b) == IF a = NaN \/ b = NaN THEN NaN ELSE a + b

\* a / s for a positive scalar s, rounded down
FScale(a, s) == IF a = NaN THEN NaN ELSE a \div s

(***************************************************************************)
(* tessellation                                                            *)
(***************************************************************************)
\* the helper leaving its third argument out
lcm_pair(num1, num2, num3) == Abs(num1 * num2) \div Gcd(num1, num2)

\* lcm of the three denominators as the helper computes it
lcm(num1, num2, num3) == Abs(num1 * num2 * num3) \div Gcd(num3, Gcd(num1, num2))

den_lcm(r) == lcm(r.x_lim[2], r.y_lim[2], r.z_lim[2])

\* integer ticks of one dimension: int(den_lcm * num / den)
n_axis(r, d) == Trunc(den_lcm(r) * d[1], d[2])

num_gfc(r) == Gcd(n_axis(r, r.z_lim), Gcd(n_axis(r, r.x_lim), n_axis(r, r.y_lim)))

\* delta_Lmax * scale_factor, as the fraction <<g*p, L*q>>
DeltaL(r) == <<num_gfc(r) * r.scale_factor[1], den_lcm(r) * r.scale_factor[2]>>

\* a dimension in coordinate units of 1/(2*L*q) metre
LimUnits(r, d) == n_axis(r, d) * 2 * r.scale_factor[2]

\* int(lim / delta_L)
no_tick(r, d) == Trunc(LimUnits(r, d), 2 * DeltaL(r)[1])

Ticks(r) == [x |-> no_tick(r, r.x_lim), y |-> no_tick(r, r.y_lim), z |-> no_tick(r, r.z_lim)]

\* the number of columns np.zeros allocates for each wall
WallSize(t, w) ==
    CASE w \in {0, 5} -> t.x * t.y
      [] w \in {1, 3} -> t.z * t.x
      [] OTHER -> t.z * t.y

\* y coordinate of column i of walls 2 and 4: delta_L/2 + i*delta_L/2
ew2_y(h, i) == h + i * h

\* the cell the loops of lines 195-237 write at column c of wall w; a column
\* the loops never reach keeps the zeros of np.zeros
WallCell(r, t, w, c) ==
    LET h  == DeltaL(r)[1]
        XL == LimUnits(r, r.x_lim)
        YL == LimUnits(r, r.y_lim)
        ZL == LimUnits(r, r.z_lim)
    IN CASE w \in {0, 5} ->
              IF t.x > 0 /\ t.y > 0
              THEN LET j == c \div t.y
                       i == c % t.y
                   IN <<h + j * 2 * h, h + i * 2 * h, IF w = 0 THEN ZL ELSE 0, w>>
              ELSE <<0, 0, 0, 0>>
         [] w \in {1, 3} ->
              IF t.z > 0 /\ t.x > 0
              THEN LET j == c \div t.x
                       i == c % t.x
                   IN <<XL - h - i * 2 * h, IF w = 1 THEN 0 ELSE YL, ZL - h - j * 2 * h, w>>
              ELSE <<0, 0, 0, 0>>
         [] OTHER ->
              IF t.z > 0 /\ t.y > 0
              THEN LET j == c \div t.y
                       i == c % t.y
                   IN <<IF w = 2 THEN 0 ELSE XL, ew2_y(h, i), ZL - h - j * 2 * h, w>>
              ELSE <<0, 0, 0, 0>>

\* init_index[i] = len(points[i-1]) + init_index[i-1]
RECURSIVE InitIndex(_, _)
InitIndex(t, w) == IF w = 0 THEN 0 ELSE WallSize(t, w - 1) + InitIndex(t, w - 1)

\* the wall whose block of the concatenated array holds column n
WallOf(t, n) == CHOOSE w \in 0..5 : InitIndex(t, w) <= n /\ n < InitIndex(t, w) + WallSize(t, w)

\* np.concatenate((ew0_points, ..., ew5_points), axis=1)
ArrayPoints(r, t) ==
    [n \in 0..(InitIndex(t, 5) + WallSize(t, 5) - 1) |->
        LET w == WallOf(t, n) IN WallCell(r, t, w, n - InitIndex(t, w))]

NoPoints(t) == 2 * t.x * t.y + 2 * t.z * t.x + 2 * t.z * t.y

(***************************************************************************)
(* make_parameters                                                         *)
(***************************************************************************)
\* coordinate units per metre
UnitsPerMetre(dL) == 2 * dL[2]

Dot(u, v) == u[1] * v[1] + u[2] * v[2] + u[3] * v[3]

Sub(u, v) == <<u[1] - v[1], u[2] - v[2], u[3] - v[3]>>

\* np.linalg.norm / fastdist.euclidean of a vector in units, in millimetres
Norm(u, upm) == (ISqrt(Dot(u, u) * 10000) * 10) \div upm

euclidean(v1, v2, upm) == Norm(Sub(v1, v2), upm)

\* the cosines of the line of sight against each end's normal, in thousandths;
\* unit_vlos is 0/0 when the two points coincide
cos_2points(v1, n1, v2, n2, upm) ==
    LET vlos == Sub(v1, v2)
        norm == Norm(vlos, upm)
    IN IF norm = 0
       THEN <<NaN, NaN>>
       ELSE <<(Dot(Sub(v2, v1), n1) * 1000000) \div (norm * upm),
              (Dot(vlos, n2) * 1000000) \div (norm * upm)>>

\* ew_par[0, i, j]: written for ini_point < end_point on different walls and
\* mirrored; every other entry keeps the zero of np.zeros
ew_par_dis(pts, upm, i, j) ==
    LET ini == IF i < j THEN i ELSE j
        end == IF i < j THEN j ELSE i
    IN IF i = j \/ pts[ini][4] = pts[end][4]
       THEN 0
       ELSE euclidean(pts[ini], pts[end], upm)

\* ew_par[1, i, j]: cos_phi at [ini, end], cos_tetha at [end, ini]
ew_par_cos(pts, upm, i, j) ==
    LET ini == IF i < j THEN i ELSE j
        end == IF i < j THEN j ELSE i
    IN IF i = j \/ pts[ini][4] = pts[end][4]
       THEN 0
       ELSE LET cs == cos_2points(pts[ini], NORMAL_VECTOR_WALL[pts[ini][4]],
                                  pts[end], NORMAL_VECTOR_WALL[pts[end][4]], upm)
            IN IF i < j THEN cs[1] ELSE cs[2]

make_parameters(pts, t, upm) ==
    LET n == NoPoints(t)
    IN [dis |-> [i \in 0..(n - 1) |-> [j \in 0..(n - 1) |-> ew_par_dis(pts, upm, i, j)]],
        cos |-> [i \in 0..(n - 1) |-> [j \in 0..(n - 1) |-> ew_par_cos(pts, upm, i, j)]]]

(***************************************************************************)
(* compute_cir                                                             *)
(***************************************************************************)
\* distance / SPEED_OF_LIGHT, millimetres to picoseconds
Delay(d) == (d * 1000) \div SPEED_OF_LIGHT

\* wall_label[pos] with pos a list of three integers: an index outside
\* -no_cells..no_cells-1 raises IndexError
LabelIndexOk(pos, n) == \A k \in 1..3 : -n <= pos[k] /\ pos[k] < n

\* np.allclose(np.transpose(pos), points[:, i]); pos is in metres
AtPoint(pos, pt, upm) == \A k \in 1..3 : pos[k] * upm = pt[k]

\* the index the loop of lines 377-389 leaves, -1 when it assigns none
index_point(pos, pts, n, upm) ==
    IF \E i \in 0..(n - 1) : AtPoint(pos, pts[i], upm)
    THEN CHOOSE i \in 0..(n - 1) :
            /\ AtPoint(pos, pts[i], upm)
            /\ \A l \in 0..(i - 1) : ~AtPoint(pos, pts[l], upm)
    ELSE -1

\* tx_power[c]: 1/dis2 where dis2 != 0 and 0 elsewhere, times cos_phi^m
tx_power(par, tx, c) ==
    LET d == par.dis[tx][c]
    IN IF d = 0
       THEN FMul(0, par.cos[tx][c])
       ELSE FScale(FMul(par.cos[tx][c], 1000000), d * d)

\* rx_wall_factor[c] = a_r * parameters[1, rx, c]
rx_wall_factor(par, rx, c) == par.cos[rx][c]

\* h0_se[c]: <<power, delay>> between the source and cell c
h0_se(par, tx, c) ==
    <<FScale(FMul(tx_power(par, tx, c), par.cos[c][tx]), 10000),
      Delay(par.dis[tx][c])>>

\* h0_er[c]: <<power, delay>> between cell c and the receiver
h0_er(par, rx, c) ==
    LET d == par.dis[rx][c]
    IN <<IF d = 0
         THEN 0
         ELSE FScale(FMul(FMul(par.cos[c][rx], rx_wall_factor(par, rx, c)), 100), d * d),
         Delay(d)>>

\* dP_ij[i, j], zero where dis2 is zero
dP_ij(par, i, j) ==
    LET d == par.dis[i][j]
    IN IF d = 0
       THEN 0
       ELSE FScale(FMul(FMul(par.cos[i][j], par.cos[j][i]), 100), d * d)

\* the order-0 delay read from the transmitter's own entry of parameters[0]
h_0_txrow(par, tx, rx) ==
    <<FMul(tx_power(par, tx, rx), rx_wall_factor(par, rx, tx)),
      Delay(par.dis[tx][tx])>>

\* the record of h_k[0]
h_0(par, tx, rx) ==
    <<FMul(tx_power(par, tx, rx), rx_wall_factor(par, rx, tx)),
      Delay(par.dis[tx][rx])>>

\* the row of dP_ij and of parameters[0] that block j of hlast_er[i] uses
index_dpij(j, n) == j % n

RECURSIVE hlast_er(_, _, _, _, _)
\* hlast_er[i], i >= 1: lines 438-439 and 452-457
hlast_er(par, dP, er, n, i) ==
    IF i = 1
    THEN er
    ELSE LET prev == hlast_er(par, dP, er, n, i - 1)
         IN [q \in 0..(Pow(n, i) - 1) |->
                LET j == q \div n
                    c == q % n
                IN <<FMul(prev[j][1], dP[index_dpij(j, n)][c]),
                     prev[j][2] + Delay(par.dis[index_dpij(j, n)][c])>>]

\* the contiguous slice lim_0 + t of the block of cell l in place of the stride
gather_index_slice(l, t, n, i) == l * Pow(n, i - 1) + t

\* the t-th index of range(l, len_last, no_cells)
gather_index(l, t, n, i) == l + n * t

\* h_k[i], i >= 2: lines 461-474
h_k_rec(par, dP, se, er, n, i) ==
    LET last == hlast_er(par, dP, er, n, i)
        blk  == Pow(n, i - 1)
    IN [q \in 0..(Pow(n, i) - 1) |->
           LET l == q \div blk
               t == q % blk
               m == gather_index(l, t, n, i)
           IN <<FMul(last[m][1], se[l][1]), se[l][2] + last[m][2]>>]

\* the list compute_cir returns
compute_cir(par, n, tx, rx, k_reflec) ==
    LET dP == [i \in 0..(n - 1) |-> [j \in 0..(n - 1) |-> dP_ij(par, i, j)]]
        se == [c \in 0..(n - 1) |-> h0_se(par, tx, c)]
        er == [c \in 0..(n - 1) |-> h0_er(par, rx, c)]
    IN [i \in 0..k_reflec |->
           CASE i = 0 -> [q \in 0..0 |-> h_0(par, tx, rx)]
             [] i = 1 -> [c \in 0..(n - 1) |-> <<FMul(se[c][1], er[c][1]), se[c][2] + er[c][2]>>]
             [] OTHER -> h_k_rec(par, dP, se, er, n, i)]

\* the files numpy.savetxt writes under CIR_PATH while h_k is built
cir_saved(h, k_reflec) == [i \in (0..k_reflec) \cap {0, 1} |-> h[i]]

\* f with the files of g written over it
Overwrite(f, g) ==
    [i \in (DOMAIN f) \cup (DOMAIN g) |-> IF i \in DOMAIN g THEN g[i] ELSE f[i]]

(***************************************************************************)
(* create_histograms                                                       *)
(***************************************************************************)
\* np.floor((delay - delay_los) / TIME_RESOLUTION)
bucket_index(delay, delay_los) == (delay - delay_los) \div TIME_RESOLUTION

\* hk_aux[i] after lines 528-530; it is h_k[i] itself, not a copy
hk_aux(h_i, delay_los) ==
    [q \in DOMAIN h_i |-> <<h_i[q][1], bucket_index(h_i[q][2], delay_los)>>]

\* an index numpy accepts for an axis of BINS_HIST entries
IndexInRange(idx) == -BINS_HIST <= idx /\ idx < BINS_HIST

\* the entry a (possibly negative) index names
bin_of(idx) == IF idx < 0 THEN idx + BINS_HIST ELSE idx

\* hist_power_time[idx, i] = power, the bucket overwritten
add_power_assign(old, power) == power

\* hist_power_time[idx, i] += power
add_power(old, power) == FAdd(old, power)

RECURSIVE accumulate(_, _, _, _)
\* what the loop of lines 532-533 adds to bin b over the records lo..hi, the
\* range split in halves
accumulate(aux, b, lo, hi) ==
    IF lo > hi
    THEN 0
    ELSE IF lo = hi
    THEN IF bin_of(aux[lo][2]) = b THEN aux[lo][1] ELSE 0
    ELSE LET mid == (lo + hi) \div 2
         IN add_power(accumulate(aux, b, lo, mid), accumulate(aux, b, mid + 1, hi))

\* column i of hist_power_time
hist_column(aux) ==
    LET cnt  == Cardinality(DOMAIN aux)
        used == {bin_of(aux[q][2]) : q \in DOMAIN aux}
    IN [b \in 0..(BINS_HIST - 1) |->
           IF b \in used THEN accumulate(aux, b, 0, cnt - 1) ELSE 0]

\* whether line 533 raises IndexError for some record of order i
RaisesIndexError(aux) == \E q \in DOMAIN aux : ~IndexInRange(aux[q][2])

RECURSIVE SumTo(_, _)
\* np.sum of f[0..n]
SumTo(f, n) == IF n < 0 THEN 0 ELSE FAdd(f[n], SumTo(f, n - 1))

\* np.sum(hist_power_time, axis=1)
total_of(hist, k_reflec) ==
    [b \in 0..(BINS_HIST - 1) |-> SumTo([i \in 0..k_reflec |-> hist[i][b]], k_reflec)]

(***************************************************************************)
(* The callers' inputs                                                     *)
(***************************************************************************)
XLims == {<<-2, 1>>, <<0, 1>>, <<2, 1>>}
YLims == {<<-2, 1>>, <<2, 1>>}
ZLims == {<<-2, 1>>, <<2, 1>>, <<6, 1>>, <<12, 1>>}

ScaleFactors ==
    {<<0, 1>>} \cup {<<p, q>> \in (1..MaxScaleNum) \X (1..MaxScaleDen) : Gcd(p, q) = 1}

\* positive room dimensions as Fraction(str(lim)) gives them, in lowest terms
RationalLims ==
    {<<n, d>> \in (1..MaxDimNum) \X (1..MaxDimDen) : Gcd(n, d) = 1}

\* transmitter and receiver positions, lists of integers as in __main__
Positions ==
    {<<1, 1, 0>>, <<1, 1, 2>>, <<1, 0, 1>>, <<1, 0, 5>>, <<1, 0, 11>>, <<1, 1, 12>>,
     <<0, 1, 1>>}

(***************************************************************************)
(* The program                                                             *)
(***************************************************************************)
NoError == [type |-> "none", fn |-> "none", line |-> 0]

Init ==
    /\ pc = "start"
    /\ err = NoError
    /\ room = [x_lim |-> <<0, 1>>, y_lim |-> <<0, 1>>, z_lim |-> <<0, 1>>,
               scale_factor |-> <<0, 1>>]
    /\ delta_L = <<0, 1>>
    /\ ticks = [x |-> 0, y |-> 0, z |-> 0]
    /\ init_index = <<>>
    /\ no_points = 0
    /\ array_points = <<>>
    /\ ew_par = [dis |-> <<>>, cos |-> <<>>]
    /\ call = [tx_pos |-> <<0, 0, 0>>, rx_pos |-> <<0, 0, 0>>, k_reflec |-> 0]
    /\ h_k = <<>>
    /\ progress = {}
    /\ hist_power_time = <<>>
    /\ total_ht = <<>>
    /\ files = <<>>

\* the exception e raised at the given line of function fn ends the run
Raise(e, fn, line) == pc' = "failed" /\ err' = [type |-> e, fn |-> fn, line |-> line]

\* what tessellation does with the room r
tessellation(r) ==
    LET t == Ticks(r)
    IN /\ room' = r
       /\ IF DeltaL(r)[1] = 0
          THEN \* x_lim/delta_L, line 173
               /\ Raise("ZeroDivisionError", "tessellation", 173)
               /\ UNCHANGED <<delta_L, ticks, init_index, no_points, array_points>>
          ELSE IF \E w \in 0..5 : WallSize(t, w) < 0
          THEN \* np.zeros((4, negative)), lines 177-182
               /\ Raise("ValueError", "tessellation", 177)
               /\ UNCHANGED <<delta_L, ticks, init_index, no_points, array_points>>
          ELSE /\ pc' = "tessellated"
               /\ err' = NoError
               /\ delta_L' = DeltaL(r)
               /\ ticks' = t
               /\ init_index' = [w \in 0..5 |-> InitIndex(t, w)]
               /\ no_points' = NoPoints(t)
               /\ array_points' = ArrayPoints(r, t)

\* tessellation(x_lim, y_lim, z_lim, scale_factor)
Tessellation ==
    /\ pc = "start"
    /\ \E x \in XLims, y \in YLims, z \in ZLims, f \in ScaleFactors :
          tessellation([x_lim |-> x, y_lim |-> y, z_lim |-> z, scale_factor |-> f])
    /\ UNCHANGED <<ew_par, call, h_k, progress, hist_power_time, total_ht, files>>

\* tessellation of a room whose dimensions are positive fractions, unscaled
TessellationRational ==
    /\ pc = "start"
    /\ \E x \in RationalLims, y \in RationalLims, z \in RationalLims :
          tessellation([x_lim |-> x, y_lim |-> y, z_lim |-> z, scale_factor |-> <<1, 1>>])
    /\ UNCHANGED <<ew_par, call, h_k, progress, hist_power_time, total_ht, files>>

\* make_parameters(array_points, x_lim, y_lim, z_lim, no_xtick, no_ytick, no_ztick)
MakeParameters ==
    /\ pc = "tessellated"
    /\ no_points <= MaxCells
    /\ pc' = "parameters"
    /\ ew_par' = make_parameters(array_points, ticks, UnitsPerMetre(delta_L))
    /\ UNCHANGED <<err, room, delta_L, ticks, init_index, no_points, array_points,
                   call, h_k, progress, hist_power_time, total_ht, files>>

\* compute_cir(m, tx_pos, rx_pos, points, wall_label, parameters, ..., k_reflec)
ComputeCir ==
    /\ pc = "parameters"
    /\ \E tx_pos \in Positions, rx_pos \in Positions, k_reflec \in 0..MaxK :
          LET n   == Cardinality(DOMAIN array_points)
              upm == UnitsPerMetre(delta_L)
              tx  == index_point(tx_pos, array_points, n, upm)
              rx  == index_point(rx_pos, array_points, n, upm)
          IN /\ Pow(n, k_reflec) <= MaxRecords
             /\ call' = [tx_pos |-> tx_pos, rx_pos |-> rx_pos, k_reflec |-> k_reflec]
             /\ IF n = 0
                THEN \* area_factor, line 367: delta_A*no_cells is zero
                     /\ Raise("ZeroDivisionError", "compute_cir", 367)
                     /\ progress' = {}
                     /\ UNCHANGED <<h_k, files>>
                ELSE IF ~LabelIndexOk(tx_pos, n) \/ ~LabelIndexOk(rx_pos, n)
                THEN \* wall_label[tx_pos], wall_label[rx_pos], lines 370-374
                     /\ Raise("IndexError", "compute_cir", 370)
                     /\ progress' = {}
                     /\ UNCHANGED <<h_k, files>>
                ELSE IF tx = -1
                THEN \* tx_index_point is read unassigned at line 397
                     /\ Raise("UnboundLocalError", "compute_cir", 397)
                     /\ progress' = {"dis2"}
                     /\ UNCHANGED <<h_k, files>>
                ELSE IF rx = -1
                THEN \* rx_index_point is read unassigned at line 399
                     /\ Raise("UnboundLocalError", "compute_cir", 399)
                     /\ progress' = {"dis2", "tx_power"}
                     /\ UNCHANGED <<h_k, files>>
                ELSE /\ pc' = "cir"
                     /\ err' = NoError
                     /\ progress' = {"dis2", "tx_power", "h0_se", "h0_er", "dP_ij", "h_k"}
                     /\ h_k' = compute_cir(ew_par, n, tx, rx, k_reflec)
                     /\ files' = Overwrite(files, cir_saved(h_k', k_reflec))
    /\ UNCHANGED <<room, delta_L, ticks, init_index, no_points, array_points, ew_par,
                   hist_power_time, total_ht>>

\* the first order whose loop raises IndexError, -1 when none does
FailOrder(h, k_reflec) ==
    LET los == h[0][0][2]
        bad == {i \in 0..k_reflec : RaisesIndexError(hk_aux(h[i], los))}
    IN IF bad = {} THEN -1 ELSE CHOOSE i \in bad : \A l \in bad : i <= l

\* create_histograms(h_k, k_reflec, no_cells)
CreateHistograms ==
    /\ pc = "cir"
    /\ LET k_reflec  == call.k_reflec
           delay_los == h_k[0][0][2]
           aux       == [i \in 0..k_reflec |-> hk_aux(h_k[i], delay_los)]
           fail      == FailOrder(h_k, k_reflec)
       IN IF fail >= 0
          THEN \* line 533 raises; the orders up to the failing one are overwritten
               /\ Raise("IndexError", "create_histograms", 533)
               /\ h_k' = [i \in 0..k_reflec |-> IF i <= fail THEN aux[i] ELSE h_k[i]]
               /\ UNCHANGED <<hist_power_time, total_ht>>
          ELSE /\ pc' = "hist"
               /\ err' = NoError
               /\ h_k' = aux
               /\ hist_power_time' = [i \in 0..k_reflec |-> hist_column(aux[i])]
               /\ total_ht' = total_of(hist_power_time', k_reflec)
    /\ UNCHANGED <<room, delta_L, ticks, init_index, no_points, array_points, ew_par,
                   call, progress, files>>

\* create_hfiles(h_k, k_reflec)
CreateHfiles ==
    /\ pc = "hist"
    /\ pc' = "done"
    /\ files' = Overwrite(files, [i \in 0..call.k_reflec |-> h_k[i]])
    /\ UNCHANGED <<err, room, delta_L, ticks, init_index, no_points, array_points,
                   ew_par, call, h_k, progress, hist_power_time, total_ht>>

Next ==
    \/ Tessellation
    \/ MakeParameters
    \/ ComputeCir
    \/ CreateHistograms
    \/ CreateHfiles

Spec == Init /\ [][Next]_vars

\* tessellation alone, over rooms of fractional dimensions
NextRational == TessellationRational

SpecRational == Init /\ [][NextRational]_vars

(***************************************************************************)
(* Properties                                                              *)
(***************************************************************************)
NoCells == Cardinality(DOMAIN array_points)

\* the cell indices compute_cir resolved for the call in progress
TxIndex == index_point(call.tx_pos, array_points, NoCells, UnitsPerMetre(delta_L))
RxIndex == index_point(call.rx_pos, array_points, NoCells, UnitsPerMetre(delta_L))

\* the k-cell paths tx -> p[1] -> ... -> p[k] -> rx
Paths(k) == [1..k -> 0..(NoCells - 1)]

RECURSIVE PathTail(_, _)
\* the place of p[2..k] inside the block of the leading cell
PathTail(p, i) ==
    IF i > Len(p) THEN 0 ELSE p[i] * Pow(NoCells, i - 2) + PathTail(p, i + 1)

PathIndex(p) == p[1] * Pow(NoCells, Len(p) - 1) + PathTail(p, 2)

RECURSIVE HopsPower(_, _)
\* dP[p[i], p[i+1]] * ... * dP[p[k-1], p[k]]
HopsPower(p, i) ==
    IF i >= Len(p) THEN 1 ELSE FMul(dP_ij(ew_par, p[i], p[i + 1]), HopsPower(p, i + 1))

RECURSIVE HopsDelay(_, _)
HopsDelay(p, i) ==
    IF i >= Len(p) THEN 0 ELSE Delay(ew_par.dis[p[i]][p[i + 1]]) + HopsDelay(p, i + 1)

PathPower(p) ==
    FMul(h0_se(ew_par, TxIndex, p[1])[1],
         FMul(HopsPower(p, 1), h0_er(ew_par, RxIndex, p[Len(p)])[1]))

PathDelay(p) ==
    Delay(ew_par.dis[TxIndex][p[1]]) + HopsDelay(p, 1)
        + Delay(ew_par.dis[p[Len(p)]][RxIndex])

\* C1: when compute_cir returns, h_k[0] holds one record and h_k[k], k in 1..K,
\* holds no_cells^k records; every k-cell path has a place of its own, inside
\* the block of its leading cell, and the record there carries the product of
\* the path's transfer factors and the sum of its per-hop delays.
C1_PathEnumeration ==
    pc = "cir" =>
        /\ Cardinality(DOMAIN h_k[0]) = 1
        /\ \A k \in 1..call.k_reflec :
              /\ DOMAIN h_k[k] = 0..(Pow(NoCells, k) - 1)
              /\ Cardinality({PathIndex(p) : p \in Paths(k)}) = Pow(NoCells, k)
              /\ \A p \in Paths(k) :
                    /\ PathIndex(p) \in (p[1] * Pow(NoCells, k - 1))
                                        ..((p[1] + 1) * Pow(NoCells, k - 1) - 1)
                    /\ h_k[k][PathIndex(p)] = <<PathPower(p), PathDelay(p)>>

\* a third-order response over at least six cells with a path that carries power
C1_Witness ==
    /\ pc = "cir"
    /\ call.k_reflec = 3
    /\ NoCells >= 6
    /\ \E q \in DOMAIN h_k[3] : h_k[3][q][1] > 0

\* tessellation returned a cell set
Tessellated == pc \notin {"start", "failed"} \/ (pc = "failed" /\ err.fn # "tessellation")

\* make_parameters returned the geometry cache
ParametersMade == Tessellated /\ pc # "tessellated"

\* compute_cir was called
CirCalled == ParametersMade /\ pc # "parameters"

\* create_histograms was called
HistCalled == pc \in {"hist", "done"} \/ (pc = "failed" /\ err.fn = "create_histograms")

ValidGeometry ==
    /\ room.x_lim[1] > 0 /\ room.y_lim[1] > 0 /\ room.z_lim[1] > 0
    /\ room.scale_factor[1] > 0
    /\ room.scale_factor[1] <= room.scale_factor[2]

\* the two in-wall axes of wall w, as places of a cell tuple
InWallAxes(w) ==
    CASE w \in {0, 5} -> <<1, 2>>
      [] w \in {1, 3} -> <<1, 3>>
      [] OTHER -> <<2, 3>>

AxisTicks(a) == CASE a = 1 -> ticks.x [] a = 2 -> ticks.y [] OTHER -> ticks.z

AxisLim(a) ==
    LimUnits(room, CASE a = 1 -> room.x_lim [] a = 2 -> room.y_lim [] OTHER -> room.z_lim)

\* n centres, the first half a cell from a wall edge, neighbours one cell apart
IsGrid(S, a) ==
    LET h == delta_L[1]
        n == AxisTicks(a)
    IN \/ S = {h + 2 * h * i : i \in 0..(n - 1)}
       \/ S = {AxisLim(a) - h - 2 * h * i : i \in 0..(n - 1)}

WallCells(w) ==
    {array_points[n] : n \in init_index[w]..(init_index[w] + WallSize(ticks, w) - 1)}

\* C2: on each of the six walls the centroids are the full grid whose first
\* centroid is delta_L/2 from the wall edge and whose neighbours are delta_L
\* apart along both in-wall axes, walls 2 and 4 included.
C2_CentroidGrid ==
    (Tessellated /\ ValidGeometry) =>
        \A w \in 0..5 :
            LET a  == InWallAxes(w)[1]
                b  == InWallAxes(w)[2]
                SA == {c[a] : c \in WallCells(w)}
                SB == {c[b] : c \in WallCells(w)}
            IN /\ IsGrid(SA, a)
               /\ IsGrid(SB, b)
               /\ {<<c[a], c[b]>> : c \in WallCells(w)} = SA \X SB

\* the cosine at cell i of the line from i to j against the normal of i's wall
CosAtOwnNormal(i, j) ==
    LET upm == UnitsPerMetre(delta_L)
        d   == Norm(Sub(array_points[j], array_points[i]), upm)
    IN IF d = 0
       THEN NaN
       ELSE (Dot(Sub(array_points[j], array_points[i]),
                 NORMAL_VECTOR_WALL[array_points[i][4]]) * 1000000) \div (d * upm)

SameWall(i, j) == array_points[i][4] = array_points[j][4]

\* C3: the distance matrix is symmetric with a zero diagonal; distance and
\* cosine are both zero exactly for cells of the same wall; cells of different
\* walls are a positive distance apart and both cosines are there, each
\* measured against its own cell's normal.
C3_GeometryCache ==
    ParametersMade =>
        \A i \in 0..(no_points - 1), j \in 0..(no_points - 1) :
            /\ ew_par.dis[i][j] = ew_par.dis[j][i]
            /\ ew_par.dis[i][i] = 0
            /\ SameWall(i, j) <=> (ew_par.dis[i][j] = 0 /\ ew_par.cos[i][j] = 0)
            /\ ~SameWall(i, j) =>
                  /\ ew_par.dis[i][j] > 0
                  /\ ew_par.cos[i][j] # NaN
                  /\ ew_par.cos[i][j] = CosAtOwnNormal(i, j)

\* the run of scenario A with the given scale factor
ScenarioA(f) ==
    /\ room = [x_lim |-> <<2, 1>>, y_lim |-> <<2, 1>>, z_lim |-> <<2, 1>>,
               scale_factor |-> f]
    /\ call = [tx_pos |-> <<1, 1, 2>>, rx_pos |-> <<1, 1, 0>>, k_reflec |-> 0]

\* both positions are cell centroids and compute_cir returned the single
\* order-0 record with delay 2/3e8 s and a power that is not zero
ScenarioAExpected ==
    /\ pc \in {"cir", "hist", "done"}
    /\ TxIndex >= 0
    /\ RxIndex >= 0
    /\ pc = "cir" =>
          /\ DOMAIN h_k = 0..0
          /\ DOMAIN h_k[0] = 0..0
          /\ h_k[0][0][2] = (2 * 1000000) \div SPEED_OF_LIGHT
          /\ h_k[0][0][1] \notin {0, NaN}

\* C4 as stated: scenario A with scale factor 1/2 locates both positions and
\* returns exactly one order-0 record, delay 2/3e8 s, power not zero.
C4_ScenarioA_Half == ScenarioA(<<1, 2>>) => ScenarioAExpected

\* C4 (amended): scenario A with scale factor 1/3 locates both positions and
\* returns exactly one order-0 record, delay 2/3e8 s, power not zero.
C4_ScenarioA_Third == ScenarioA(<<1, 3>>) => ScenarioAExpected

\* scenario A with scale factor 1/3 ran through compute_cir
C4_Witness == ScenarioA(<<1, 3>>) /\ pc = "cir"

\* C5: in a room of valid geometry every order-1 record has a delay that is at
\* least the order-0 delay, also for a reflecting cell on the wall of the
\* transmitter or the receiver.
C5_DelayNotBeforeLos ==
    (ValidGeometry /\ pc = "cir" /\ call.k_reflec >= 1) =>
        \A c \in DOMAIN h_k[1] : h_k[1][c][2] >= h_k[0][0][2]

RECURSIVE SumRange(_, _, _)
\* f[lo] + ... + f[hi]
SumRange(f, lo, hi) ==
    IF lo > hi
    THEN 0
    ELSE IF lo = hi
    THEN f[lo]
    ELSE LET mid == (lo + hi) \div 2
         IN FAdd(SumRange(f, lo, mid), SumRange(f, mid + 1, hi))

OrderPower(i) ==
    SumRange([q \in DOMAIN h_k[i] |-> h_k[i][q][1]], 0, Cardinality(DOMAIN h_k[i]) - 1)

\* C6: when create_histograms returns, the buckets of each order add up to
\* the powers of that order's records, and total_ht is the elementwise sum of
\* the per-order histograms.
C6_HistogramSums ==
    pc \in {"hist", "done"} =>
        /\ \A i \in 0..call.k_reflec :
              SumRange(hist_power_time[i], 0, BINS_HIST - 1) = OrderPower(i)
        /\ \A b \in 0..(BINS_HIST - 1) :
              total_ht[b] = SumRange([i \in 0..call.k_reflec |-> hist_power_time[i][b]],
                                     0, call.k_reflec)

\* a returned histogram in which two reflected records share a bucket after
\* the first one
C6_Witness ==
    /\ pc = "hist"
    /\ call.k_reflec >= 1
    /\ \E q1, q2 \in DOMAIN h_k[1] :
          /\ q1 # q2
          /\ h_k[1][q1][2] = h_k[1][q2][2]
          /\ h_k[1][q1][2] > 0
          /\ h_k[1][q1][1] > 0
          /\ h_k[1][q2][1] > 0

\* the power the records of order i with bucket index idx carry
PowerAt(i, idx) ==
    SumRange([q \in DOMAIN h_k[i] |-> IF h_k[i][q][2] = idx THEN h_k[i][q][1] ELSE 0],
             0, Cardinality(DOMAIN h_k[i]) - 1)

\* C7: in a room of valid geometry create_histograms never aborts with an
\* out-of-range index, and a record whose bucket index is negative or at least
\* BINS_HIST is discarded or clipped into the last bin: every bin before the
\* last holds the power of the records whose index names it and nothing else.
C7_OutOfRangePolicy ==
    (ValidGeometry /\ HistCalled) =>
        /\ err.type # "IndexError"
        /\ \A i \in 0..call.k_reflec, b \in 0..(BINS_HIST - 2) :
              hist_power_time[i][b] = PowerAt(i, b)

\* a position that is no centroid of the generated cells
OffGrid(pos) == index_point(pos, array_points, NoCells, UnitsPerMetre(delta_L)) = -1

\* C8: with the transmitter or the receiver off the grid of a room of valid
\* geometry, compute_cir fails in the lookup itself, before any power, delay
\* or record array is computed, and returns no record sequence.  (Any
\* exception is taken for PositionNotOnGrid.)
C8_PositionNotOnGrid ==
    (ValidGeometry /\ CirCalled /\ (OffGrid(call.tx_pos) \/ OffGrid(call.rx_pos))) =>
        /\ pc = "failed"
        /\ err.fn = "compute_cir"
        /\ progress \cap {"tx_power", "h0_se", "h0_er", "dP_ij", "h_k"} = {}
        /\ h_k = <<>>

\* C9: tessellation fails, returning no cell set, whenever a dimension is not
\* positive or a tick count is zero; a returned cell set has cells on every
\* wall.  (Any exception is taken for InvalidGeometry.)
C9_InvalidGeometry ==
    pc # "start" =>
        /\ (\/ room.x_lim[1] <= 0
            \/ room.y_lim[1] <= 0
            \/ room.z_lim[1] <= 0) => (pc = "failed" /\ err.fn = "tessellation")
        /\ Tessellated =>
              /\ ticks.x # 0 /\ ticks.y # 0 /\ ticks.z # 0
              /\ \A w \in 0..5 : \E n \in DOMAIN array_points : array_points[n][4] = w

\* C10: a call of compute_cir in a room of valid geometry writes no file under
\* CIR_PATH and leaves points, wall_label and parameters as they were.
C10_NoSideEffect ==
    [][(ValidGeometry /\ pc = "parameters" /\ pc' # "parameters") =>
          (files' = files /\ array_points' = array_points /\ ew_par' = ew_par)]_vars

\* the least common multiple of three positive integers, found by search
TrueLcm(a, b, c) ==
    CHOOSE m \in 1..(a * b * c) :
        /\ m % a = 0 /\ m % b = 0 /\ m % c = 0
        /\ \A k \in 1..(m - 1) : ~(k % a = 0 /\ k % b = 0 /\ k % c = 0)

\* the length s (a fraction) fits a whole number of times into the length d
DividesExactly(s, d) == (d[1] * s[2]) % (d[2] * s[1]) = 0

RoomDims == {room.x_lim, room.y_lim, room.z_lim}

\* the lengths a step is compared with
StepCandidates == (1..MaxDimNum) \X (1..(MaxDimDen * MaxDimDen))

\* tessellation returned the unscaled step of a room of positive dimensions
UnscaledStep ==
    /\ pc = "tessellated"
    /\ room.scale_factor = <<1, 1>>
    /\ \A d \in RoomDims : d[1] > 0

\* the step the true least common multiple of the denominators gives
TrueLcmStep ==
    LET L == TrueLcm(room.x_lim[2], room.y_lim[2], room.z_lim[2])
        n(d) == (L * d[1]) \div d[2]
    IN <<Gcd(n(room.z_lim), Gcd(n(room.x_lim), n(room.y_lim))), L>>

\* C11: for positive rational dimensions the unscaled step delta_Lmax divides
\* x_lim, y_lim and z_lim exactly, no larger length does, and it is the step
\* the true least common multiple of the denominators gives, whatever the
\* three-argument helper returns for them.
C11_DeltaLmaxDivides ==
    UnscaledStep =>
        /\ \A d \in RoomDims : DividesExactly(delta_L, d)
        /\ \E s \in StepCandidates : s[1] * delta_L[2] = delta_L[1] * s[2]
        /\ \A s \in StepCandidates :
              (\A d \in RoomDims : DividesExactly(s, d)) =>
                  s[1] * delta_L[2] <= delta_L[1] * s[2]
        /\ delta_L[1] * TrueLcmStep[2] = TrueLcmStep[1] * delta_L[2]

\* a room with fractional dimensions for whose denominators the helper does
\* not return the least common multiple
C11_Witness ==
    /\ UnscaledStep
    /\ den_lcm(room) # TrueLcm(room.x_lim[2], room.y_lim[2], room.z_lim[2])
    /\ \E d \in RoomDims : d[2] > 1 /\ d[1] > d[2]

\* no_tick * delta_L = lim for the dimension d with tick count n
SpansWall(n, d) == n * delta_L[1] * d[2] = d[1] * delta_L[2]

\* C12: for every scale factor in (0, 1] and positive dimensions the scaled
\* step divides each dimension: no_xtick * delta_L = x_lim, no_ytick * delta_L
\* = y_lim and no_ztick * delta_L = z_lim.
C12_ScaledStepDivides ==
    (Tessellated /\ ValidGeometry) =>
        /\ SpansWall(ticks.x, room.x_lim)
        /\ SpansWall(ticks.y, room.y_lim)
        /\ SpansWall(ticks.z, room.z_lim)

\* C13: a call of create_histograms that returns, in a room of valid geometry,
\* leaves every h_k[i] with the (power, delay) pairs compute_cir produced.
C13_HistogramsKeepRecords ==
    [][(ValidGeometry /\ pc = "cir" /\ pc' = "hist") => h_k' = h_k]_vars

====
